---- MODULE Spec2Model ----
(***************************************************************************)
(* State-machine model of HydroQcDataCoordinator                           *)
(* (custom_components/hydroqc/coordinator/base.py).                        *)
(*                                                                         *)
(* One execution of _async_update_data ("a tick") is a sequence of steps,  *)
(* one per await of the coroutine; `pc` is the await the tick is suspended *)
(* at.  Between two awaits the code runs without interruption, so each     *)
(* action carries the whole synchronous segment that follows the await.    *)
(* The wall clock `now` is in seconds since 1 January 00:00 (Toronto time, *)
(* a year of 365 days, no daylight-saving change inside the horizon) and   *)
(* advances only between steps: the successive datetime.now() reads of one *)
(* synchronous segment are taken to return the same instant.               *)
(* datetime.now() without a zone (lines 243, 418) is read on the same      *)
(* clock, i.e. the host's zone is taken to be America/Toronto.             *)
(*                                                                         *)
(* Ticks are serialized: a tick starts only when no tick is suspended.     *)
(***************************************************************************)
EXTENDS Integers, Sequences, FiniteSets

VARIABLES
    \* configuration, fixed by __init__
    auth_mode, rate, rate_option, calendar_entity_id, enable_consumption_sync,
    \* the wall clock
    now,
    \* coordinator attributes
    last_opendata_update, last_portal_update, last_consumption_sync,
    last_peak_update_hour, last_peak_events_count,
    portal_last_offline_log, portal_available,
    customer, account, contract,
    calendar_sync_task, regular_sync_task, csv_import_task,
    \* consumption-sync tasks still running whose handle was overwritten
    regular_orphans,
    \* public_client: peak_handler present, len(peak_handler._events)
    peak_handler, peak_events,
    \* sessions closed by async_shutdown
    webuser_closed, public_closed,
    \* DataUpdateCoordinator.data: the snapshot observers read
    published,
    \* the running tick: suspension point, its local dict, local current_hour
    pc, data, current_hour,
    \* history of the running tick: the clock hour (hours since 1 January)
    \* its public fetch was forced for by the top-of-hour rule, if it was
    forced_in,
    \* position of async_shutdown
    sd,
    \* history: number of ticks started, how the two fetches of the current
    \* (or last) tick ended, how it ended, the instant the last portal-offline
    \* warning was logged
    \* and the clock hour of the last forced public fetch that succeeded
    tick, od_status, portal_status, tick_result, warned_at, forced_hour

cfg   == <<auth_mode, rate, rate_option, calendar_entity_id, enable_consumption_sync>>
odv   == <<last_opendata_update, last_peak_update_hour, peak_handler, peak_events,
           forced_hour>>
localv == <<current_hour, forced_in>>
calv  == <<calendar_sync_task, last_peak_events_count>>
consv == <<regular_sync_task, regular_orphans, last_consumption_sync>>
entv  == <<customer, account, contract>>
offv  == <<portal_available, portal_last_offline_log, warned_at>>
endv  == <<pc, published, tick_result>>
sessv == <<webuser_closed, public_closed>>
histv == <<tick, od_status, portal_status>>
vars  == <<cfg, now, odv, calv, consv, entv, offv, endv, sessv, histv,
           last_portal_update, csv_import_task, data, localv, sd>>

----------------------------------------------------------------------------
(* Bounds of the model *)

\* ticks started in one behaviour
MaxTicks == 3
\* largest number of peak events the public feed reports
MaxPeakCount == 1

(* Values *)

\* an attribute holding None where the code keeps a datetime or an hour
NoTime == -1
\* an attribute holding None where the code keeps a Customer/Account/Contract;
\* a fetched entity is identified by the number of the tick that fetched it
NoEntity == 0

AUTH_MODE_OPENDATA == "opendata"
AUTH_MODE_PORTAL == "portal"

\* the configurations explored: auth mode, rate, rate option, calendar
\* entity configured, consumption sync enabled
Profiles ==
    { [mode |-> AUTH_MODE_OPENDATA, rate |-> "D",   option |-> "CPC", cal |-> TRUE,  sync |-> TRUE],
      [mode |-> AUTH_MODE_PORTAL,   rate |-> "D",   option |-> "CPC", cal |-> TRUE,  sync |-> TRUE],
      [mode |-> AUTH_MODE_PORTAL,   rate |-> "DPC", option |-> "",    cal |-> FALSE, sync |-> TRUE],
      [mode |-> AUTH_MODE_PORTAL,   rate |-> "DT",  option |-> "",    cal |-> FALSE, sync |-> FALSE] }

----------------------------------------------------------------------------
(* The clock *)

\* first day (0-based, in the year) of each month
MonthStartDay == <<0, 31, 59, 90, 120, 151, 181, 212, 243, 273, 304, 334>>

Month(t) == Cardinality({i \in 1..12 : MonthStartDay[i] <= (t \div 86400) % 365})
Hour(t) == (t \div 3600) % 24
Minute(t) == (t \div 60) % 60

At(day, h, m) == day * 86400 + h * 3600 + m * 60

\* the clock of a behaviour: the instant it starts at and the instants it
\* takes afterwards, as offsets in seconds from the start
Timelines ==
    { \* 15 Jan 06:58, 07:02, 07:02:59, 07:07: across the top of an hour
      [start |-> At(14, 6, 58),  offsets |-> {0, 240, 299, 540}],
      \* 16 Jan 11:05, 11:09:59, 11:10: inside the public active window
      [start |-> At(15, 11, 5),  offsets |-> {0, 299, 300}],
      \* 17 Jan 06:58, 07:57:59, 07:58, 08:03: the end of the portal window
      [start |-> At(16, 6, 58),  offsets |-> {0, 3599, 3600, 3900}],
      \* 18 Jan 11:05, 11:35, 12:05:01
      [start |-> At(17, 11, 5),  offsets |-> {0, 1800, 3601}],
      \* 19 Jan 11:05, 14:04:59, 14:05: outside the portal window
      [start |-> At(18, 11, 5),  offsets |-> {0, 10799, 10800}],
      \* 31 Mar 22:58, 23:58, 1 Apr 00:03: the end of the season
      [start |-> At(89, 22, 58), offsets |-> {0, 3600, 3900}] }
StartTimes == {l.start : l \in Timelines}

\* the timeline instant t lies on, and its instants
TimelineOf(t) ==
    CHOOSE l \in Timelines :
        l.start <= t /\ \A m \in Timelines : m.start <= t => m.start <= l.start
TimePoints(t) == {TimelineOf(t).start + o : o \in TimelineOf(t).offsets}

----------------------------------------------------------------------------
(* Timing policy *)

is_portal_mode == auth_mode = AUTH_MODE_PORTAL
is_opendata_mode == auth_mode = AUTH_MODE_OPENDATA
\* self._webuser is created in portal mode only and never reassigned
webuser == auth_mode = AUTH_MODE_PORTAL

is_winter_season(t) == Month(t) \in {12, 1, 2, 3}
is_opendata_active_window(t) == 11 <= Hour(t) /\ Hour(t) < 18
is_portal_active_window(t) == 0 <= Hour(t) /\ Hour(t) < 8

\* the hour-boundary rule of _should_update_opendata
ForceTopOfHour(t, last) == Minute(t) < 5 /\ Hour(last) # Hour(t)

should_update_opendata_noforce(t, last) ==
    IF ~is_winter_season(t) THEN FALSE
    ELSE IF last = NoTime THEN TRUE
    ELSE IF is_opendata_active_window(t) THEN t - last >= 300
    ELSE t - last >= 3600

should_update_opendata_nofirst(t, last) ==
    IF ~is_winter_season(t) THEN FALSE
    ELSE IF last = NoTime THEN FALSE
    ELSE IF ForceTopOfHour(t, last) THEN TRUE
    ELSE IF is_opendata_active_window(t) THEN t - last >= 300
    ELSE t - last >= 3600

\* a public test whose intervals must be exceeded, not reached
should_update_opendata_exclusive(t, last) ==
    IF ~is_winter_season(t) THEN FALSE
    ELSE IF last = NoTime THEN TRUE
    ELSE IF ForceTopOfHour(t, last) THEN TRUE
    ELSE IF is_opendata_active_window(t) THEN t - last > 300
    ELSE t - last > 3600

\* a public test that lets the first run through before it tests the season
should_update_opendata_firstfirst(t, last) ==
    IF last = NoTime THEN TRUE
    ELSE IF ~is_winter_season(t) THEN FALSE
    ELSE IF ForceTopOfHour(t, last) THEN TRUE
    ELSE IF is_opendata_active_window(t) THEN t - last >= 300
    ELSE t - last >= 3600

should_update_opendata(t, last) ==
    IF ~is_winter_season(t) THEN FALSE
    ELSE IF last = NoTime THEN TRUE
    ELSE IF ForceTopOfHour(t, last) THEN TRUE
    ELSE IF is_opendata_active_window(t) THEN t - last >= 300
    ELSE t - last >= 3600

\* a portal test whose intervals must be exceeded, not reached
should_update_portal_exclusive(t, last) ==
    IF last = NoTime THEN TRUE
    ELSE IF is_portal_active_window(t) THEN t - last > 3600
    ELSE t - last > 10800

\* a portal test that does not let the first run through
should_update_portal_nofirst(t, last) ==
    IF last = NoTime THEN FALSE
    ELSE IF is_portal_active_window(t) THEN t - last >= 3600
    ELSE t - last >= 10800

should_update_portal(t, last) ==
    IF last = NoTime THEN TRUE
    ELSE IF is_portal_active_window(t) THEN t - last >= 3600
    ELSE t - last >= 10800

\* the once-per-hour test of the portal-offline warning
offline_log_due_short(t, last) == last = NoTime \/ t - last >= 360

offline_log_due(t, last) == last = NoTime \/ t - last >= 3600

\* the hourly test of the consumption sync
consumption_sync_due(t, last) == last = NoTime \/ t - last >= 3600

----------------------------------------------------------------------------
(* Initial state: the attributes as __init__ leaves them *)

\* a task handle is "None", "running", "done" or "cancelled"
\* Task.done() is true of a finished and of a cancelled task
TaskDone(t) == t \in {"done", "cancelled"}

\* a snapshot whose authenticated fields keep the last published values
StaleData == published

\* the dict a tick starts from
FreshData == [contract |-> NoEntity, account |-> NoEntity, customer |-> NoEntity]

Init ==
    /\ \E p \in Profiles :
          /\ auth_mode = p.mode
          /\ rate = p.rate
          /\ rate_option = p.option
          /\ calendar_entity_id = p.cal
          /\ enable_consumption_sync = p.sync
    /\ now \in StartTimes
    /\ last_opendata_update = NoTime
    /\ last_portal_update = NoTime
    /\ last_consumption_sync = NoTime
    /\ last_peak_update_hour = NoTime
    /\ last_peak_events_count = 0
    /\ portal_last_offline_log = NoTime
    /\ portal_available = "None"
    /\ customer = NoEntity
    /\ account = NoEntity
    /\ contract = NoEntity
    /\ calendar_sync_task = "None"
    /\ regular_sync_task = "None"
    /\ csv_import_task = "unknown"
    /\ regular_orphans = 0
    /\ peak_handler = FALSE
    /\ peak_events = 0
    /\ webuser_closed = FALSE
    /\ public_closed = FALSE
    /\ published = [contract |-> NoEntity, account |-> NoEntity, customer |-> NoEntity]
    /\ pc = "idle"
    /\ data = [contract |-> NoEntity, account |-> NoEntity, customer |-> NoEntity]
    /\ current_hour = NoTime
    /\ forced_in = NoTime
    /\ forced_hour = NoTime
    /\ sd = "none"
    /\ tick = 0
    /\ od_status = "none"
    /\ portal_status = "none"
    /\ tick_result = "none"
    /\ warned_at = NoTime

----------------------------------------------------------------------------
(* The ways a step of a tick ends *)

\* the coroutine returns d: DataUpdateCoordinator stores it as its data
Return(d) == pc' = "idle" /\ published' = d /\ tick_result' = "ok"
\* the coroutine raises UpdateFailed: the stored data is kept
Raise == pc' = "idle" /\ published' = published /\ tick_result' = "failed"
\* the coroutine suspends at the await of call p
Await(p) == pc' = p /\ published' = published /\ tick_result' = "running"

----------------------------------------------------------------------------
(* Synchronous segments of _async_update_data *)

\* a calendar trigger that records the count also when it starts nothing
CalendarSyncRecordsAlways(handler, events) ==
    IF calendar_entity_id /\ handler /\ events # last_peak_events_count
    THEN /\ calendar_sync_task' =
               IF calendar_sync_task = "None" \/ TaskDone(calendar_sync_task)
               THEN "running" ELSE calendar_sync_task
         /\ last_peak_events_count' = events
    ELSE UNCHANGED calv

\* calendar sync trigger, given the peak handler and its number of events
CalendarSync(handler, events) ==
    IF calendar_entity_id /\ handler /\ events # last_peak_events_count
       /\ (calendar_sync_task = "None" \/ TaskDone(calendar_sync_task))
    THEN /\ calendar_sync_task' = "running"
         /\ last_peak_events_count' = events
    ELSE UNCHANGED calv

\* consumption sync trigger; hasattr(self, "_first_refresh_done") is true of
\* every coordinator, __init__ sets the attribute
ConsumptionSync ==
    IF /\ is_portal_mode
       /\ contract # NoEntity
       /\ enable_consumption_sync
       /\ consumption_sync_due(now, last_consumption_sync)
    THEN /\ regular_sync_task' = "running"
         /\ regular_orphans' = regular_orphans + (IF regular_sync_task = "running" THEN 1 ELSE 0)
         /\ last_consumption_sync' = now
    ELSE UNCHANGED consv

\* the end of a tick that did not stop early: consumption sync, return data
Finalize(d) == ConsumptionSync /\ Return(d)

\* the portal decision, with local dict d
PortalPath(d) ==
    IF should_update_portal(now, last_portal_update) /\ webuser
    THEN /\ portal_status' = "pending"
         /\ Await("check_hq_portal_status")
         /\ UNCHANGED consv
    ELSE /\ portal_status' = "not_due"
         /\ Finalize(d)

\* what follows the public fetch: calendar sync, the mode test, the portal
AfterOpendata(d, handler, events) ==
    /\ CalendarSync(handler, events)
    /\ IF is_opendata_mode
       THEN /\ portal_status' = "none"
            /\ Return(d)
            /\ UNCHANGED consv
       ELSE PortalPath(d)

\* a failed public fetch that still records the time of the attempt
FetchPeakFailedStamped ==
    /\ last_opendata_update' = now
    /\ UNCHANGED <<last_peak_update_hour, peak_handler, peak_events, forced_hour>>
    /\ od_status' = "failed"
    /\ AfterOpendata(data, peak_handler, peak_events)

\* a failed public fetch that ends the tick with UpdateFailed
FetchPeakFailedFatal ==
    /\ UNCHANGED odv
    /\ od_status' = "failed"
    /\ UNCHANGED <<portal_status, calv, consv>>
    /\ Raise

\* fetch_peak_data raised: the warning is logged, nothing is recorded
FetchPeakFailed ==
    /\ UNCHANGED odv
    /\ od_status' = "failed"
    /\ AfterOpendata(data, peak_handler, peak_events)

\* fetch_peak_data returned; the feed now reports n events
FetchPeakSucceeded(n) ==
    /\ peak_handler' = TRUE
    /\ peak_events' = n
    /\ last_opendata_update' = now
    /\ last_peak_update_hour' =
          IF last_peak_update_hour # current_hour THEN current_hour
          ELSE last_peak_update_hour
    /\ forced_hour' = IF forced_in # NoTime THEN forced_in ELSE forced_hour
    /\ od_status' = "ok"
    /\ AfterOpendata(data, TRUE, n)

----------------------------------------------------------------------------
(* The tick: start and public fetch *)

TickStart ==
    /\ pc = "idle"
    /\ sd = "none"
    /\ tick < MaxTicks
    /\ tick' = tick + 1
    /\ data' = FreshData
    \* the local is read by the public fetch only
    /\ current_hour' = IF should_update_opendata(now, last_opendata_update)
                       THEN Hour(now) ELSE NoTime
    /\ forced_in' = IF /\ should_update_opendata(now, last_opendata_update)
                       /\ last_opendata_update # NoTime
                       /\ ForceTopOfHour(now, last_opendata_update)
                    THEN now \div 3600 ELSE NoTime
    /\ IF should_update_opendata(now, last_opendata_update)
       THEN /\ od_status' = "pending"
            \* until this tick takes its portal decision, portal_status
            \* tells how the previous tick's ended
            /\ UNCHANGED portal_status
            /\ Await("fetch_peak_data")
            /\ UNCHANGED <<calv, consv>>
       ELSE /\ od_status' = "not_due"
            /\ AfterOpendata(FreshData, peak_handler, peak_events)
    /\ UNCHANGED <<cfg, now, odv, entv, offv, sessv, last_portal_update,
                   csv_import_task, sd>>

FetchPeakData ==
    /\ pc = "fetch_peak_data"
    /\ \/ \E n \in 0..MaxPeakCount : FetchPeakSucceeded(n)
       \/ FetchPeakFailed
    /\ current_hour' = NoTime
    /\ forced_in' = NoTime
    /\ UNCHANGED <<cfg, now, entv, offv, sessv, tick, last_portal_update,
                   csv_import_task, data, sd>>

----------------------------------------------------------------------------
(* The tick: the authenticated chain, one action per await *)

ChainFrame ==
    UNCHANGED <<cfg, now, odv, calv, sessv, tick, od_status,
                csv_import_task, localv, sd>>

\* the call returned: the chain goes on to the await of call p
Continue(p) ==
    /\ portal_status' = "pending"
    /\ Await(p)
    /\ UNCHANGED <<consv, last_portal_update, data>>

\* a chain failure that still publishes what was fetched so far
ChainRaisePartial ==
    /\ portal_status' = "failed"
    /\ pc' = "idle"
    /\ published' = [contract |-> contract, account |-> account, customer |-> customer]
    /\ tick_result' = "failed"
    /\ UNCHANGED <<consv, last_portal_update, data>>

\* the call raised: both except clauses log and raise UpdateFailed
ChainRaise ==
    /\ portal_status' = "failed"
    /\ Raise
    /\ UNCHANGED <<consv, last_portal_update, data>>

\* the whole chain returned: group write, timestamp, end of the tick
PortalSuccess ==
    LET d == [contract |-> contract, account |-> account, customer |-> customer]
    IN  /\ data' = d
        /\ last_portal_update' = now
        /\ portal_status' = "ok"
        /\ Finalize(d)

\* an offline branch that takes the check as the update of the source
PortalOfflineStamped ==
    /\ portal_available' = "False"
    /\ IF offline_log_due(now, portal_last_offline_log)
       THEN /\ warned_at' = now
            /\ portal_last_offline_log' = now
       ELSE UNCHANGED <<warned_at, portal_last_offline_log>>
    /\ portal_status' = "offline"
    /\ Return(data)
    /\ last_portal_update' = now
    /\ UNCHANGED <<consv, data>>

\* check_hq_portal_status returned False: rate-limited warning, return data
PortalOffline ==
    /\ portal_available' = "False"
    /\ IF offline_log_due(now, portal_last_offline_log)
       THEN /\ warned_at' = now
            /\ portal_last_offline_log' = now
       ELSE UNCHANGED <<warned_at, portal_last_offline_log>>
    /\ portal_status' = "offline"
    /\ Return(data)
    /\ UNCHANGED <<consv, last_portal_update, data>>

CheckPortalStatus ==
    /\ pc = "check_hq_portal_status"
    /\ \/ /\ portal_available' = "True"
          /\ UNCHANGED <<portal_last_offline_log, warned_at>>
          /\ \E session_expired \in BOOLEAN :
                IF session_expired THEN Continue("login") ELSE Continue("get_info")
       \/ PortalOffline
       \/ ChainRaise /\ UNCHANGED offv
    /\ UNCHANGED entv
    /\ ChainFrame

Login ==
    /\ pc = "login"
    /\ \/ Continue("get_info")
       \/ ChainRaise
    /\ UNCHANGED <<entv, offv>>
    /\ ChainFrame

GetInfo ==
    /\ pc = "get_info"
    /\ \/ Continue("fetch_customers_info")
       \/ ChainRaise
    /\ UNCHANGED <<entv, offv>>
    /\ ChainFrame

\* on return self._customer is assigned before the next await
FetchCustomersInfo ==
    /\ pc = "fetch_customers_info"
    /\ \/ /\ customer' = tick
          /\ Continue("customer.get_info")
       \/ /\ UNCHANGED customer
          /\ ChainRaise
    /\ UNCHANGED <<account, contract, offv>>
    /\ ChainFrame

\* on return self._account and self._contract are assigned; get_contract
\* may raise after get_account returned
CustomerGetInfo ==
    /\ pc = "customer.get_info"
    /\ \/ /\ account' = tick
          /\ contract' = tick
          /\ Continue("get_periods_info")
       \/ /\ account' = tick
          /\ UNCHANGED contract
          /\ ChainRaise
       \/ /\ UNCHANGED <<account, contract>>
          /\ ChainRaise
    /\ UNCHANGED <<customer, offv>>
    /\ ChainFrame

GetPeriodsInfo ==
    /\ pc = "get_periods_info"
    /\ \/ Continue("refresh_outages")
       \/ ChainRaise
    /\ UNCHANGED <<entv, offv>>
    /\ ChainFrame

\* on return the rate-specific branch is chosen; is_instance is the outcome
\* of the isinstance test of the contract against the class of the rate
RefreshOutages ==
    /\ pc = "refresh_outages"
    /\ \/ \E is_instance \in BOOLEAN :
             IF rate = "D" /\ rate_option = "CPC"
             THEN IF is_instance THEN Continue("peak_handler.refresh_data") ELSE PortalSuccess
             ELSE IF rate = "DPC"
             THEN IF is_instance THEN Continue("get_dpc_data") ELSE PortalSuccess
             ELSE IF rate = "DT"
             THEN IF is_instance THEN Continue("get_annual_consumption") ELSE PortalSuccess
             ELSE PortalSuccess
       \/ ChainRaise
    /\ UNCHANGED <<entv, offv>>
    /\ ChainFrame

GetDpcData ==
    /\ pc = "get_dpc_data"
    /\ \/ Continue("peak_handler.refresh_data")
       \/ ChainRaise
    /\ UNCHANGED <<entv, offv>>
    /\ ChainFrame

RefreshData ==
    /\ pc = "peak_handler.refresh_data"
    /\ \/ PortalSuccess
       \/ ChainRaise
    /\ UNCHANGED <<entv, offv>>
    /\ ChainFrame

GetAnnualConsumption ==
    /\ pc = "get_annual_consumption"
    /\ \/ PortalSuccess
       \/ ChainRaise
    /\ UNCHANGED <<entv, offv>>
    /\ ChainFrame

----------------------------------------------------------------------------
(* Background tasks *)

\* A task's state is read by the calendar trigger, by the consumption
\* trigger and by async_shutdown only, so the end of a task during a tick
\* is taken at the end of that tick.
TaskFrame ==
    /\ pc = "idle"
    /\ UNCHANGED <<cfg, now, odv, entv, offv, endv, sessv, histv,
                last_portal_update, data, localv, sd>>

\* _async_sync_calendar_events runs to its end
CalendarTaskDone ==
    /\ calendar_sync_task = "running"
    /\ calendar_sync_task' = "done"
    /\ UNCHANGED <<last_peak_events_count, consv, csv_import_task>>
    /\ TaskFrame

\* the _async_regular_consumption_sync the handle refers to runs to its end
RegularTaskDone ==
    /\ regular_sync_task = "running"
    /\ regular_sync_task' = "done"
    /\ UNCHANGED <<regular_orphans, last_consumption_sync, calv, csv_import_task>>
    /\ TaskFrame

\* an _async_regular_consumption_sync no handle refers to runs to its end
OrphanTaskDone ==
    /\ regular_orphans > 0
    /\ regular_orphans' = regular_orphans - 1
    /\ UNCHANGED <<regular_sync_task, last_consumption_sync, calv, csv_import_task>>
    /\ TaskFrame

----------------------------------------------------------------------------
(* async_shutdown.  It is called when no tick runs and no tick starts      *)
(* after it.  Each `await task` after task.cancel() returns once the task  *)
(* has ended, so the call is one step.  The CSV import handle belongs to   *)
(* the consumption mixin: whether it holds a running task when the call is *)
(* made is an input of the call (an absent attribute, None and a finished  *)
(* task are all skipped alike).                                           *)

\* what cancel() and the await make of a task handle
Cancelled(t) == IF t = "running" THEN "cancelled" ELSE t

async_shutdown ==
    /\ pc = "idle"
    /\ sd = "none"
    /\ \E found \in {"None", "running"} : csv_import_task' = Cancelled(found)
    /\ regular_sync_task' = Cancelled(regular_sync_task)
    /\ webuser_closed' = webuser
    /\ public_closed' = TRUE
    /\ sd' = "done"
    /\ UNCHANGED <<cfg, now, odv, entv, offv, endv, histv, calv,
                   regular_orphans, last_consumption_sync,
                   last_portal_update, data, localv>>

----------------------------------------------------------------------------
\* Time passes.  Inside a tick the clock is read after the public fetch,
\* after the portal status check and at the end of the chain, so the time
\* the awaits of the chain take is let pass at the first of them.
AdvancePoints == {"idle", "fetch_peak_data", "check_hq_portal_status", "get_info"}

Advance ==
    /\ sd = "none"
    /\ pc \in AdvancePoints
    /\ \E t \in TimePoints(now) : t > now /\ now' = t
    /\ UNCHANGED <<cfg, odv, calv, consv, entv, offv, endv, sessv, histv,
                   last_portal_update, csv_import_task, data, localv, sd>>

Next ==
    \/ TickStart
    \/ FetchPeakData
    \/ CheckPortalStatus
    \/ Login
    \/ GetInfo
    \/ FetchCustomersInfo
    \/ CustomerGetInfo
    \/ GetPeriodsInfo
    \/ RefreshOutages
    \/ GetDpcData
    \/ RefreshData
    \/ GetAnnualConsumption
    \/ CalendarTaskDone
    \/ RegularTaskDone
    \/ OrphanTaskDone
    \/ async_shutdown
    \/ Advance

Spec == Init /\ [][Next]_vars

----------------------------------------------------------------------------
(* The timing policy on its own.  _should_update_opendata and              *)
(* _should_update_portal read the clock and one timestamp each; here a     *)
(* coordinator is taken at an instant of PolicyTimes with either timestamp *)
(* unset or some PolicyElapsed seconds old, and each function is called    *)
(* once, as lines 247 and 283 call them.                                   *)

\* days of the year (0-based): 15 Jan, 31 Mar, 1 Apr, 15 Jul, 30 Nov, 1 Dec
PolicyDays == {14, 89, 90, 195, 333, 334}
\* hours on both sides of the ends of the two active windows
PolicyHours == {0, 7, 8, 10, 11, 17, 18, 23}
\* minutes on both sides of the five-minute mark
PolicyMinutes == {0, 4, 5, 30}
PolicyTimes == {At(d, h, m) : d \in PolicyDays, h \in PolicyHours, m \in PolicyMinutes}
\* ages of a recorded timestamp, around the four intervals of the policy
PolicyElapsed == {0, 299, 300, 301, 3599, 3600, 3601, 10799, 10800, 10801, 90000}
\* the values a timestamp may hold at instant t
PolicyLast(t) == {NoTime} \cup {t - e : e \in PolicyElapsed}

PolicyInit ==
    /\ auth_mode = AUTH_MODE_PORTAL
    /\ rate = "D"
    /\ rate_option = "CPC"
    /\ calendar_entity_id = FALSE
    /\ enable_consumption_sync = FALSE
    /\ now \in PolicyTimes
    /\ last_opendata_update \in PolicyLast(now)
    /\ last_portal_update \in PolicyLast(now)
    /\ last_consumption_sync = NoTime
    /\ last_peak_update_hour = NoTime
    /\ last_peak_events_count = 0
    /\ portal_last_offline_log = NoTime
    /\ portal_available = "None"
    /\ customer = NoEntity
    /\ account = NoEntity
    /\ contract = NoEntity
    /\ calendar_sync_task = "None"
    /\ regular_sync_task = "None"
    /\ csv_import_task = "unknown"
    /\ regular_orphans = 0
    /\ peak_handler = FALSE
    /\ peak_events = 0
    /\ webuser_closed = FALSE
    /\ public_closed = FALSE
    /\ published = [contract |-> NoEntity, account |-> NoEntity, customer |-> NoEntity]
    /\ pc = "idle"
    /\ data = [contract |-> NoEntity, account |-> NoEntity, customer |-> NoEntity]
    /\ current_hour = NoTime
    /\ forced_in = NoTime
    /\ forced_hour = NoTime
    /\ sd = "none"
    /\ tick = 0
    /\ od_status = "none"
    /\ portal_status = "none"
    /\ tick_result = "none"
    /\ warned_at = NoTime

PolicyFrame ==
    UNCHANGED <<cfg, now, odv, calv, consv, entv, offv, endv, sessv, tick,
                last_portal_update, csv_import_task, data, localv, sd>>

\* the test of line 247: the public fetch is awaited or skipped
EvalShouldUpdateOpendata ==
    /\ od_status = "none"
    /\ od_status' = IF should_update_opendata(now, last_opendata_update)
                    THEN "pending" ELSE "not_due"
    /\ UNCHANGED portal_status
    /\ PolicyFrame

\* the test of line 283: the portal path is entered or skipped
EvalShouldUpdatePortal ==
    /\ portal_status = "none"
    /\ portal_status' = IF should_update_portal(now, last_portal_update)
                        THEN "pending" ELSE "not_due"
    /\ UNCHANGED od_status
    /\ PolicyFrame

PolicyNext ==
    \/ EvalShouldUpdateOpendata
    \/ EvalShouldUpdatePortal

PolicySpec == PolicyInit /\ [][PolicyNext]_vars

----------------------------------------------------------------------------
(* Properties *)

\* the awaits of the authenticated path
AuthCalls ==
    {"check_hq_portal_status", "login", "get_info", "fetch_customers_info",
     "customer.get_info", "get_periods_info", "refresh_outages", "get_dpc_data",
     "peak_handler.refresh_data", "get_annual_consumption"}

NullData == [contract |-> NoEntity, account |-> NoEntity, customer |-> NoEntity]

\* the step is the first of a tick
StartsTick == tick' = tick + 1
\* the step takes the portal decision of a tick (line 283)
DecidesPortal ==
    /\ is_portal_mode
    /\ \/ StartsTick /\ od_status' = "not_due"
       \/ pc = "fetch_peak_data" /\ pc' # pc
\* the step is the return of check_hq_portal_status with False
OfflineStep == pc = "check_hq_portal_status" /\ portal_status' = "offline"
\* the step logs the portal-offline warning
Emitted == warned_at' # warned_at
\* consumption-sync tasks running
RunningRegular == regular_orphans + (IF regular_sync_task = "running" THEN 1 ELSE 0)

(* C1: in portal mode, a tick whose authenticated chain raises at any step   *)
(* ends as a failed tick (UpdateFailed); no step of a tick that is running   *)
(* or fails changes the published snapshot or _last_portal_update, so both   *)
(* keep the values they had before the tick.                                 *)
C1_FailedChainKeepsSnapshot ==
    [][ /\ (pc \in AuthCalls /\ portal_status' = "failed")
              => (tick_result' = "failed" /\ pc' = "idle")
        /\ tick_result' \in {"running", "failed"}
              => (published' = published /\ last_portal_update' = last_portal_update)
      ]_vars

\* a tick failed after its chain had fetched a new customer, and the snapshot
\* and the timestamp of an earlier successful tick are still in place
C1_Witness ==
    /\ pc = "idle" /\ tick_result = "failed" /\ portal_status = "failed"
    /\ customer = tick /\ published.customer # NoEntity
    /\ published.customer # customer
    /\ last_portal_update # NoTime

(* C2: no two background tasks of the same name run at the same time: at   *)
(* most one calendar-sync task (the handle is the only one) and at most    *)
(* one consumption-sync task are running.                                  *)
C2_NoTwoTasksOfOneName == RunningRegular <= 1

(* C3: when async_shutdown has returned, no background task started by a   *)
(* tick is still running, the CSV import is not running, and the sessions  *)
(* are closed.                                                             *)
C3_ShutdownStopsEveryTask ==
    sd = "done" =>
        /\ calendar_sync_task # "running"
        /\ RunningRegular = 0
        /\ csv_import_task # "running"
        /\ public_closed
        /\ (webuser => webuser_closed)

(* C4: in portal mode, after a successful authenticated fetch, a tick on   *)
(* which the portal is unavailable or the source is not due completes      *)
(* without failure and publishes the authenticated fields of the           *)
(* previously published snapshot.                                          *)
C4_StaleFieldsKept ==
    [][ ( /\ is_portal_mode
          /\ last_portal_update # NoTime
          /\ \/ OfflineStep
             \/ DecidesPortal /\ portal_status' = "not_due" )
        => (tick_result' = "ok" /\ published' = published)
      ]_vars

(* C5: the snapshot a tick returns has contract, account and customer all  *)
(* null, or all fetched by that same tick, whose chain succeeded.          *)
C5_SnapshotAllOrNothing ==
    (pc = "idle" /\ tick_result = "ok") =>
        \/ published = NullData
        \/ /\ portal_status = "ok"
           /\ published = [contract |-> tick, account |-> tick, customer |-> tick]

\* a second or later tick returned the entities its own chain fetched
C5_Witness ==
    /\ pc = "idle" /\ tick_result = "ok" /\ tick > 1
    /\ published.contract = tick /\ published.customer = tick

(* C6: _last_opendata_update and _last_portal_update change only in the    *)
(* step that ends a successful fetch of their source, to the current time, *)
(* and never decrease.                                                     *)
C6_TimestampsAdvanceOnSuccessOnly ==
    [][ /\ last_opendata_update' # last_opendata_update
              => /\ pc = "fetch_peak_data" /\ od_status' = "ok"
                 /\ last_opendata_update' = now
                 /\ last_opendata_update' > last_opendata_update
        /\ last_portal_update' # last_portal_update
              => /\ pc \in AuthCalls /\ portal_status' = "ok"
                 /\ last_portal_update' = now
                 /\ last_portal_update' > last_portal_update
      ]_vars

\* a public fetch failed and a portal check found the portal offline, both
\* after a success, and both timestamps still lie in the past
C6_Witness ==
    /\ pc = "idle" /\ od_status = "failed" /\ portal_status = "offline"
    /\ last_opendata_update # NoTime /\ last_opendata_update < now
    /\ last_portal_update # NoTime /\ last_portal_update < now

(* C7: in opendata mode no call of the authenticated path is ever made, no *)
(* consumption sync is launched, every snapshot has null authenticated     *)
(* fields, and in season the first tick attempts the public fetch.         *)
C7_OpendataNeverAuthenticates ==
    is_opendata_mode =>
        /\ pc \notin AuthCalls
        /\ portal_status = "none" /\ portal_available = "None"
        /\ last_portal_update = NoTime
        /\ RunningRegular = 0 /\ last_consumption_sync = NoTime
        /\ published = NullData /\ data = NullData
        /\ (tick = 1 /\ is_winter_season(now)) => od_status # "not_due"

\* in opendata mode a second tick has fetched the public feed and returned
C7_Witness ==
    /\ is_opendata_mode /\ tick > 1
    /\ pc = "idle" /\ tick_result = "ok" /\ od_status = "ok"

(* C8, as stated: after a tick that found the portal unavailable, the next *)
(* tick finds the authenticated source still due.                          *)
C8_NextTickStillDue ==
    (pc \in {"idle", "fetch_peak_data"} /\ portal_status = "offline")
        => should_update_portal(now, last_portal_update)

(* C8, amended: the authenticated path is entered by the availability      *)
(* check, exactly when the source is due; a check that reports unavailable *)
(* ends the tick at once, without failure and with _last_portal_update     *)
(* unchanged; the next tick finds the source due again if no fetch has     *)
(* succeeded yet or it falls in the portal window [0,8).                   *)
C8_OfflineSkipsAndRetries ==
    /\ [][ /\ (pc' \in AuthCalls /\ pc \notin AuthCalls)
                 => pc' = "check_hq_portal_status"
           /\ DecidesPortal
                 => (pc' = "check_hq_portal_status"
                        <=> should_update_portal(now, last_portal_update))
           /\ OfflineStep
                 => /\ pc' = "idle" /\ tick_result' = "ok"
                    /\ last_portal_update' = last_portal_update
         ]_vars
    /\ []( ( /\ pc \in {"idle", "fetch_peak_data"} /\ portal_status = "offline"
             /\ (last_portal_update = NoTime \/ is_portal_active_window(now)) )
           => should_update_portal(now, last_portal_update) )

\* a tick found the portal unavailable an hour after a successful fetch,
\* inside the portal window
C8_Witness ==
    /\ pc = "idle" /\ portal_status = "offline" /\ tick_result = "ok"
    /\ last_portal_update # NoTime
    /\ now - last_portal_update >= 3600
    /\ is_portal_active_window(now)

(* C9: a tick that finds the portal unavailable logs the warning iff none  *)
(* was logged before or the last one is at least 3600 s old; two warnings  *)
(* are at least 3600 s apart; _portal_last_offline_log changes only when a *)
(* warning is logged, to the time of the warning.                          *)
C9_OfflineWarningOncePerHour ==
    [][ /\ OfflineStep
              => (Emitted <=> (warned_at = NoTime \/ now - warned_at >= 3600))
        /\ Emitted
              => /\ OfflineStep
                 /\ warned_at' = now
                 /\ (warned_at = NoTime \/ warned_at' - warned_at >= 3600)
        /\ portal_last_offline_log' # portal_last_offline_log
              => (Emitted /\ portal_last_offline_log' = now)
      ]_vars

\* a second or later tick found the portal unavailable half an hour after
\* the last warning
C9_Witness ==
    /\ pc = "idle" /\ portal_status = "offline" /\ tick > 1
    /\ warned_at # NoTime /\ now - warned_at = 1800

(* C10: in season, with a last public update recorded, a tick that starts  *)
(* in the first five minutes of an hour other than the hour of the last    *)
(* update fetches the public feed whatever the elapsed time; once a fetch  *)
(* forced this way has succeeded, the rule does not apply again in the     *)
(* same clock hour.                                                        *)
C10_TopOfHourForcesOneRefresh ==
    /\ [][ ( /\ StartsTick
             /\ is_winter_season(now)
             /\ last_opendata_update # NoTime
             /\ Minute(now) < 5
             /\ Hour(last_opendata_update) # Hour(now) )
           => (should_update_opendata(now, last_opendata_update)
                 /\ pc' = "fetch_peak_data")
         ]_vars
    /\ []( (forced_hour # NoTime /\ now \div 3600 = forced_hour)
           => ~ForceTopOfHour(now, last_opendata_update) )

\* a forced fetch succeeded although less than the interval had elapsed, and
\* a later tick in the same hour, still in its first five minutes, was not due
C10_Witness ==
    /\ pc = "idle" /\ od_status = "not_due" /\ tick > 2
    /\ forced_hour = now \div 3600 /\ Minute(now) < 5
    /\ is_winter_season(now)

(* C11, as stated (PolicySpec): with the last-update timestamp unset,      *)
(* _should_update_opendata and _should_update_portal both return true.     *)
C11_FirstRunAlwaysFires ==
    /\ (od_status # "none" /\ last_opendata_update = NoTime)
          => od_status = "pending"
    /\ (portal_status # "none" /\ last_portal_update = NoTime)
          => portal_status = "pending"

(* C11, amended (PolicySpec): with the last-update timestamp unset,        *)
(* _should_update_portal returns true, and _should_update_opendata returns *)
(* true iff the month is December, January, February or March.             *)
C11_FirstRunFiresInSeason ==
    /\ (od_status # "none" /\ last_opendata_update = NoTime)
          => (od_status = "pending" <=> Month(now) \in {12, 1, 2, 3})
    /\ (portal_status # "none" /\ last_portal_update = NoTime)
          => portal_status = "pending"

\* with both timestamps unset, in season, both tests were taken and both
\* sources were found due
C11_Witness ==
    /\ last_opendata_update = NoTime /\ last_portal_update = NoTime
    /\ Month(now) = 12
    /\ od_status = "pending" /\ portal_status = "pending"

(* C12: a tick that starts in a month other than December, January,       *)
(* February and March finds the public feed not due, whatever the last     *)
(* update is, does not call fetch_peak_data and leaves                     *)
(* _last_opendata_update as it was.                                        *)
C12_OffSeasonNeverFetches ==
    [][ (StartsTick /\ Month(now) \notin {12, 1, 2, 3})
        => /\ ~should_update_opendata(now, last_opendata_update)
           /\ od_status' = "not_due"
           /\ pc' # "fetch_peak_data"
           /\ last_opendata_update' = last_opendata_update
           /\ last_peak_update_hour' = last_peak_update_hour
      ]_vars

\* two ticks or more have run, the last one in April with no public update
\* recorded, and it skipped the public fetch
C12_Witness ==
    /\ pc = "idle" /\ tick_result = "ok" /\ tick > 1
    /\ Month(now) = 4 /\ last_opendata_update = NoTime
    /\ od_status = "not_due"

(* C13 (PolicySpec): in season, with a last public update recorded and    *)
(* the hour-boundary rule not applicable (minute >= 5, or the last update  *)
(* in the current clock hour), the public feed is due iff at least 300 s   *)
(* have elapsed when the hour is in [11,18), at least 3600 s otherwise.    *)
C13_OpendataIntervals ==
    ( /\ od_status # "none"
      /\ Month(now) \in {12, 1, 2, 3}
      /\ last_opendata_update # NoTime
      /\ ~(Minute(now) < 5 /\ Hour(last_opendata_update) # Hour(now)) )
    => ( od_status = "pending"
           <=> now - last_opendata_update >=
                  (IF 11 <= Hour(now) /\ Hour(now) < 18 THEN 300 ELSE 3600) )

\* at 11:30 in January, exactly 300 s after the last update, the feed was
\* found due
C13_Witness ==
    /\ Month(now) = 1 /\ Hour(now) = 11 /\ Minute(now) = 30
    /\ last_opendata_update # NoTime /\ now - last_opendata_update = 300
    /\ od_status = "pending"

(* C14: with a last portal update recorded, the tick enters the            *)
(* authenticated path iff at least 3600 s have elapsed when the hour is in *)
(* [0,8), at least 10800 s otherwise; two successive values of             *)
(* _last_portal_update are at least 3600 s apart.                          *)
C14_PortalIntervals ==
    [][ /\ (DecidesPortal /\ last_portal_update # NoTime)
              => ( pc' = "check_hq_portal_status"
                     <=> now - last_portal_update >=
                            (IF Hour(now) < 8 THEN 3600 ELSE 10800) )
        /\ (last_portal_update' # last_portal_update /\ last_portal_update # NoTime)
              => last_portal_update' - last_portal_update >= 3600
      ]_vars

\* before 08:00, exactly 3600 s after the last successful fetch, a tick has
\* found the authenticated source due and awaits the availability check
C14_Witness ==
    /\ pc = "check_hq_portal_status" /\ portal_status = "pending"
    /\ last_portal_update # NoTime /\ now - last_portal_update = 3600
    /\ Hour(now) < 8

\* the step is the raise of fetch_peak_data
FetchFailsStep == pc = "fetch_peak_data" /\ od_status' = "failed"

(* C16, as stated, for ticks in the season: after a tick whose public     *)
(* fetch raised, the next tick finds the public feed due again.            *)
C16_NextTickRetries ==
    (pc = "idle" /\ od_status = "failed" /\ Month(now) \in {12, 1, 2, 3})
        => should_update_opendata(now, last_opendata_update)

(* C16, amended: the step in which fetch_peak_data raises does not fail    *)
(* the tick, leaves _last_opendata_update and _last_peak_update_hour       *)
(* unchanged, takes the calendar-sync decision and, in portal mode, the    *)
(* portal decision; the next tick finds the public feed due again if the   *)
(* season is still active and no public fetch has succeeded yet or the     *)
(* last success is at least 3600 s old.                                    *)
C16_FetchFailureTolerated ==
    /\ [][ FetchFailsStep
           => /\ tick_result' # "failed"
              /\ last_opendata_update' = last_opendata_update
              /\ last_peak_update_hour' = last_peak_update_hour
              /\ ( (calendar_sync_task' = "running" /\ calendar_sync_task # "running")
                    <=> ( /\ calendar_entity_id /\ peak_handler
                          /\ peak_events # last_peak_events_count
                          /\ calendar_sync_task # "running" ) )
              /\ is_portal_mode
                    => ( pc' = "check_hq_portal_status"
                           <=> should_update_portal(now, last_portal_update) )
         ]_vars
    /\ []( ( /\ pc = "idle" /\ od_status = "failed"
             /\ Month(now) \in {12, 1, 2, 3}
             /\ (last_opendata_update = NoTime \/ now - last_opendata_update >= 3600) )
           => should_update_opendata(now, last_opendata_update) )

\* an hour after the last public update the fetch raised, and the same tick
\* went on to fetch the authenticated source and returned
C16_Witness ==
    /\ pc = "idle" /\ od_status = "failed"
    /\ tick_result = "ok" /\ portal_status = "ok"
    /\ last_opendata_update # NoTime /\ now - last_opendata_update >= 3600

\* the step takes the calendar-sync decision of a tick (line 267)
DecidesCalendar ==
    \/ StartsTick /\ od_status' = "not_due"
    \/ pc = "fetch_peak_data" /\ pc' # pc
\* the step creates a calendar-sync task
CalendarStarted == calendar_sync_task' = "running" /\ calendar_sync_task # "running"

(* C17: with a calendar entity configured and a peak handler present, the  *)
(* calendar decision of a tick starts a task iff the current number of     *)
(* peak events differs from the recorded one and no calendar-sync task is  *)
(* running; a task is started by that decision only, and records the       *)
(* current count; the recorded count changes only when a task is started;  *)
(* a decision taken while a task is running changes neither.               *)
C17_CalendarTryStart ==
    [][ /\ DecidesCalendar
              => ( CalendarStarted
                     <=> ( /\ calendar_entity_id /\ peak_handler'
                           /\ peak_events' # last_peak_events_count
                           /\ calendar_sync_task # "running" ) )
        /\ CalendarStarted
              => (DecidesCalendar /\ last_peak_events_count' = peak_events')
        /\ last_peak_events_count' # last_peak_events_count => CalendarStarted
        /\ (DecidesCalendar /\ calendar_sync_task = "running")
              => UNCHANGED <<calendar_sync_task, last_peak_events_count>>
      ]_vars

\* a task was started for one event, ended, and a third tick, finding no
\* event any more, has started a task again
C17_Witness ==
    /\ tick = 3 /\ pc = "idle"
    /\ calendar_sync_task = "running"
    /\ last_peak_events_count = 0 /\ peak_events = 0

\* the step creates a consumption-sync task (lines 386-387)
ConsumptionLaunched == last_consumption_sync' # last_consumption_sync

(* C18: a consumption sync is launched only in portal mode, with the sync  *)
(* enabled, by a step that ends its tick with a snapshot whose contract,   *)
(* account and customer are non-null, and when none was launched before or *)
(* the last launch is at least 3600 s old; it is not launched by a tick    *)
(* that fails or that ends at the portal-unavailable branch.               *)
C18_ConsumptionSyncGated ==
    [][ ConsumptionLaunched
        => /\ is_portal_mode
           /\ enable_consumption_sync
           /\ pc' = "idle" /\ tick_result' = "ok"
           /\ portal_status' # "offline"
           /\ published'.contract # NoEntity
           /\ published'.account # NoEntity
           /\ published'.customer # NoEntity
           /\ (last_consumption_sync = NoTime
                 \/ last_consumption_sync' - last_consumption_sync >= 3600)
      ]_vars

(* C19: no consumption sync is launched by a tick that runs while          *)
(* _first_refresh_done is still False.  __init__ sets the attribute to     *)
(* False (line 85) and the coordinator never assigns it, so the first tick *)
(* after construction, tick 1, runs with it False: no step of tick 1       *)
(* launches a consumption sync.                                            *)
C19_NoSyncDuringFirstRefresh ==
    [][ ConsumptionLaunched => tick' > 1 ]_vars

(* C20: between ticks, _customer, _account and _contract are all None or   *)
(* were all fetched by one tick, whose chain succeeded.                    *)
C20_CachedEntitiesOfOneTick ==
    pc = "idle" =>
        /\ customer = account /\ account = contract
        /\ contract # NoEntity => last_portal_update # NoTime

====
